---- MODULE Spec2Model ----
(***************************************************************************)
(* A model of the aggregate execution operator (execution/aggregate.rs)    *)
(* and of the columnar Array type (arrow.rs) of query-planner-rs.          *)
(*                                                                         *)
(* AggregateRelation::next is modelled at the granularity of its loops:    *)
(* one step enters the call, one step per batch pulled from the input      *)
(* (ungrouped path) or per row of a pulled batch (grouped path), one step  *)
(* when the input signals end-of-stream, and one step that builds the      *)
(* output batch and returns.  A panic!/unimplemented!/unwrap failure ends  *)
(* the program (pc = "aborted").                                           *)
(*                                                                         *)
(* Float64 and Int32 cell values are modelled as integers 1..MaxVal (no    *)
(* NaN); the cells of a group column are modelled as the values KeyVals.   *)
(* The input relation is the environment: it yields any batch until it     *)
(* signals end-of-stream, and None ever after.  In the grouped path the    *)
(* rows of a batch are drawn when the row loop reaches them.  Every        *)
(* aggregate argument evaluates to the same value column of the batch.     *)
(* RecordBatch::new is the plain constructor from (schema, columns).       *)
(***************************************************************************)
EXTENDS Integers, Sequences, FiniteSets

VARIABLES
    group_expr,       \* AggregateRelation.group_expr
    aggr_expr,        \* AggregateRelation.aggr_expr
    exhausted,        \* the input relation has signalled end-of-stream
    batchesGiven,     \* number of batches the input relation has yielded
    rowsGiven,        \* number of rows the input relation has yielded
    pc,               \* position inside AggregateRelation::next
    accumulator_set,  \* local of without_group_by
    map,              \* local of with_group_by
    result,           \* what the last call of next returned
    nCalls,           \* number of calls of next made so far
    outputs,          \* number of Ok(Some(batch)) results returned so far
    outputsBefore,    \* value of outputs when the current call was made
    evalFailed,       \* an aggregate argument evaluator returned Err to the current call
    seen,             \* rows accumulated by the current call
    sawEnd,           \* the input returned None to the current call
    nYielded,         \* batches the input yielded to the current call
    nAccum,           \* batches the current call has fully accumulated
    pullsAfterEnd,    \* calls of input.next() by this call after it saw None
    arr,              \* self of the Array, Value or accumulator operation called
    bools,            \* its argument (the predicate of filter, other of eq and
                      \* partial_cmp, the values given to accumulate_scalar so far)
    third,            \* the third Value of a chain of comparisons
    filtered,         \* the value it returned
    apc               \* position of the Array operations

aggVars == <<group_expr, aggr_expr, exhausted, batchesGiven, rowsGiven, pc,
             accumulator_set, map, result, nCalls,
             outputs, outputsBefore, evalFailed, seen, sawEnd, nYielded, nAccum,
             pullsAfterEnd>>
arrVars == <<arr, bools, third, filtered, apc>>
vars == <<aggVars, arrVars>>

(***************************************************************************)
(* Bounds                                                                  *)
(***************************************************************************)
MaxBatches == 2   \* batches the input relation yields at most
MaxRows == 3      \* rows the input relation yields at most, over all batches
MaxVal == 2       \* cell values of the aggregated column are 1..MaxVal
MaxAggr == 2      \* aggregate expressions of the relation
MaxCalls == 2     \* calls of AggregateRelation::next
MaxLen == 3
\* largest Int64 operand of partial_cmp, written as its distance from 2^53
MaxOffset == 2
\* number of accumulate_scalar calls made on one accumulator
MaxSteps == 3       \* length of the Arrays given to Array::filter

Values == 1..MaxVal
KeyVals == {1, 2}

(***************************************************************************)
(* Option<ScalarValue>                                                     *)
(***************************************************************************)
None == [some |-> FALSE, kind |-> "None", v |-> 0]
Some(kind, v) == [some |-> TRUE, kind |-> kind, v |-> v]

\* the scalar kinds the MIN/MAX match arms cover
ReducerKinds == {"UInt8", "UInt16", "UInt32", "UInt64",
                 "Int8", "Int16", "Int32", "Int64", "Float32", "Float64"}

min(a, b) == IF a <= b THEN a ELSE b
max(a, b) == IF a >= b THEN a ELSE b

\* a faulty constructor: the accumulator starts with a value already stored
NewFunction_seeded(f, data_type) ==
    [f |-> f, data_type |-> data_type, value |-> Some(data_type, 1)]

\* MinFunction::new / MaxFunction::new
NewFunction(f, data_type) == [f |-> f, data_type |-> data_type, value |-> None]

\* a faulty MinFunction::accumulate_scalar: the incoming value overwrites the
\* stored one instead of being reduced with it
MinFunction_accumulate_scalar_overwrite(self, value) ==
    IF value.some /\ self.value.some /\ self.value.kind # value.kind
    THEN [ok |-> FALSE, fn |-> self]
    ELSE [ok |-> TRUE, fn |-> IF value.some THEN [self EXCEPT !.value = value] ELSE self]

\* a faulty MinFunction::accumulate_scalar: operands of different kinds are
\* reduced, the result taking the kind of the incoming value
MinFunction_accumulate_scalar_coercing(self, value) ==
    IF ~self.value.some
    THEN [ok |-> TRUE, fn |-> [self EXCEPT !.value = value]]
    ELSE IF value.some
    THEN IF value.kind \in ReducerKinds
         THEN [ok |-> TRUE,
               fn |-> [self EXCEPT !.value = Some(value.kind, min(self.value.v, value.v))]]
         ELSE [ok |-> FALSE, fn |-> self]
    ELSE [ok |-> TRUE, fn |-> self]

\* a faulty MaxFunction::accumulate_scalar: an absent value clears the stored one
MaxFunction_accumulate_scalar_clearing(self, value) ==
    IF ~self.value.some \/ ~value.some
    THEN [ok |-> TRUE, fn |-> [self EXCEPT !.value = value]]
    ELSE IF self.value.kind = value.kind /\ value.kind \in ReducerKinds
    THEN [ok |-> TRUE,
          fn |-> [self EXCEPT !.value = Some(value.kind, max(self.value.v, value.v))]]
    ELSE [ok |-> FALSE, fn |-> self]

\* MinFunction::accumulate_scalar: [ok |-> FALSE] is the panic of the last arm
MinFunction_accumulate_scalar(self, value) ==
    IF ~self.value.some
    THEN [ok |-> TRUE, fn |-> [self EXCEPT !.value = value]]
    ELSE IF value.some
    THEN IF self.value.kind = value.kind /\ value.kind \in ReducerKinds
         THEN [ok |-> TRUE,
               fn |-> [self EXCEPT !.value = Some(value.kind, min(self.value.v, value.v))]]
         ELSE [ok |-> FALSE, fn |-> self]
    ELSE [ok |-> TRUE, fn |-> self]

\* MaxFunction::accumulate_scalar
MaxFunction_accumulate_scalar(self, value) ==
    IF ~self.value.some
    THEN [ok |-> TRUE, fn |-> [self EXCEPT !.value = value]]
    ELSE IF value.some
    THEN IF self.value.kind = value.kind /\ value.kind \in ReducerKinds
         THEN [ok |-> TRUE,
               fn |-> [self EXCEPT !.value = Some(value.kind, max(self.value.v, value.v))]]
         ELSE [ok |-> FALSE, fn |-> self]
    ELSE [ok |-> TRUE, fn |-> self]

\* dynamic dispatch through the AggregateFunction trait object
accumulate_scalar(fn, value) ==
    IF fn.f = "Min" THEN MinFunction_accumulate_scalar(fn, value)
    ELSE MaxFunction_accumulate_scalar(fn, value)

\* AccumulatorSet::accumulate_scalar(i, value); i counts from 1 here
AccumulatorSet_accumulate_scalar(set, i, value) ==
    LET r == accumulate_scalar(set.aggr_values[i], value)
    IN [ok |-> r.ok, set |-> [set EXCEPT !.aggr_values[i] = r.fn]]

(***************************************************************************)
(* RuntimeExpr                                                             *)
(***************************************************************************)
\* RuntimeExpr::AggregateFunction { f, args, t }; argOk tells whether the
\* compiled argument evaluator args[0] returns Ok for a batch
AggregateFunction(f, t, argOk) ==
    [node |-> "AggregateFunction", f |-> f, t |-> t, argOk |-> argOk]
\* any RuntimeExpr that is not an aggregate function
Compiled == [node |-> "Compiled", f |-> "", t |-> "Float64", argOk |-> TRUE]

\* a group expression: the DataType of the column its evaluator returns, and
\* whether the evaluator returns Ok
GroupExpr(t, ok) == [t |-> t, ok |-> ok]

AggrNodes ==
    { AggregateFunction("Min", "Float64", TRUE),
      AggregateFunction("Max", "Float64", TRUE),
      AggregateFunction("Max", "Int32", TRUE),
      AggregateFunction("Min", "Utf8", TRUE),
      AggregateFunction("Sum", "Float64", TRUE),
      AggregateFunction("Min", "Float64", FALSE),
      Compiled }

GroupExprs ==
    { <<>>,
      <<GroupExpr("Int32", TRUE)>>,
      <<GroupExpr("Utf8", TRUE)>>,
      <<GroupExpr("Int32", TRUE), GroupExpr("Utf8", TRUE)>>,
      <<GroupExpr("Float64", TRUE)>>,
      <<GroupExpr("Int32", FALSE)>> }

AggrExprs == UNION { [1..k -> AggrNodes] : k \in 1..MaxAggr }

\* create_accumulators: the closure of the map panics on the first expression
\* that is no MIN/MAX aggregate function
create_accumulators(exprs) ==
    LET bad == { i \in 1..Len(exprs) :
                   \/ exprs[i].node # "AggregateFunction"
                   \/ exprs[i].f \notin {"Min", "Max"} }
        first == CHOOSE i \in bad : \A j \in bad : i <= j
    IN IF bad = {}
       THEN [ok |-> TRUE, msg |-> "",
             set |-> [aggr_values |-> [i \in 1..Len(exprs) |->
                                         NewFunction(exprs[i].f, exprs[i].t)]]]
       ELSE [ok |-> FALSE,
             msg |-> IF exprs[first].node # "AggregateFunction"
                     THEN "invalid aggregate expression"
                     ELSE "unsupported aggregate function",
             set |-> [aggr_values |-> <<>>]]

(***************************************************************************)
(* Ungrouped path: whole-array MIN/MAX                                     *)
(***************************************************************************)
RECURSIVE array_ops_min(_)
\* arrow::array_ops::min over a Float64Array: None for an empty array
array_ops_min(array) ==
    IF Len(array) = 0 THEN None
    ELSE LET rest == array_ops_min(Tail(array))
         IN IF rest.some /\ rest.v < Head(array) THEN rest
            ELSE Some("Float64", Head(array))

RECURSIVE array_ops_max(_)
\* arrow::array_ops::max over a Float64Array
array_ops_max(array) ==
    IF Len(array) = 0 THEN None
    ELSE LET rest == array_ops_max(Tail(array))
         IN IF rest.some /\ rest.v > Head(array) THEN rest
            ELSE Some("Float64", Head(array))

\* array_min: Err(NotImplemented) for every DataType but Float64
array_min(array, dt) ==
    IF dt = "Float64"
    THEN [ok |-> TRUE, value |-> array_ops_min(array)]
    ELSE [ok |-> FALSE, value |-> None]

\* a faulty array_max: the Float64 reduction is applied whatever the DataType
array_max_any_type(array, dt) == [ok |-> TRUE, value |-> array_ops_max(array)]

\* array_max
array_max(array, dt) ==
    IF dt = "Float64"
    THEN [ok |-> TRUE, value |-> array_ops_max(array)]
    ELSE [ok |-> FALSE, value |-> None]

\* results of AggregateRelation::next
NoResult == [tag |-> "NoCall", info |-> "", columns |-> <<>>]
OkSome(columns) == [tag |-> "Ok", info |-> "", columns |-> columns]
Err(kind) == [tag |-> "Err", info |-> kind, columns |-> <<>>]
Panic(msg) == [tag |-> "Panic", info |-> msg, columns |-> <<>>]

RECURSIVE accumulate_batch(_, _, _, _)
\* the body of the while loop of without_group_by, from expression i on:
\* [tag |-> "Ok", set] or the Err returned or the panic raised
accumulate_batch(exprs, set, batch, i) ==
    IF i > Len(exprs) THEN [tag |-> "Ok", info |-> "", set |-> set]
    ELSE LET e == exprs[i]
             m == IF e.f = "Min" THEN array_min(batch, e.t) ELSE array_max(batch, e.t)
             r == AccumulatorSet_accumulate_scalar(set, i, m.value)
         IN IF e.node # "AggregateFunction"
            THEN [tag |-> "Err", info |-> "General", set |-> set]
            ELSE IF ~e.argOk
            THEN [tag |-> "Err", info |-> "ExecutionError", set |-> set]
            ELSE IF e.f \notin {"Min", "Max"}
            THEN [tag |-> "Err", info |-> "NotImplemented", set |-> set]
            ELSE IF ~m.ok
            THEN [tag |-> "Err", info |-> "NotImplemented", set |-> set]
            ELSE IF ~r.ok
            THEN [tag |-> "Panic", info |-> "unsupported data type for MIN/MAX", set |-> set]
            ELSE accumulate_batch(exprs, r.set, batch, i + 1)

\* a cell of an output column
Cell(n) == [null |-> FALSE, v |-> n]
Null == [null |-> TRUE, v |-> 0]

\* a faulty column builder: nothing is pushed for an accumulator without value
result_column_without_null(accum) ==
    IF accum.data_type = "Int32"
    THEN [ok |-> TRUE, col |-> <<>>]
    ELSE IF accum.data_type = "Float64"
    THEN IF ~accum.value.some THEN [ok |-> TRUE, col |-> <<>>]
         ELSE IF accum.value.kind = "Float64"
         THEN [ok |-> TRUE, col |-> <<Cell(accum.value.v)>>]
         ELSE [ok |-> FALSE, col |-> <<>>]
    ELSE [ok |-> FALSE, col |-> <<>>]

\* the column built for one accumulator (lines 323-338)
result_column(accum) ==
    IF accum.data_type = "Int32"
    THEN [ok |-> TRUE, col |-> <<>>]
    ELSE IF accum.data_type = "Float64"
    THEN IF ~accum.value.some THEN [ok |-> TRUE, col |-> <<Null>>]
         ELSE IF accum.value.kind = "Float64"
         THEN [ok |-> TRUE, col |-> <<Cell(accum.value.v)>>]
         ELSE [ok |-> FALSE, col |-> <<>>]
    ELSE [ok |-> FALSE, col |-> <<>>]

\* a faulty result_columns: the columns are pushed in reverse order
result_columns_reversed(set) ==
    [i \in 1..Len(set.aggr_values) |->
        result_column(set.aggr_values[Len(set.aggr_values) + 1 - i]).col]

\* result_columns of without_group_by
result_columns(set) ==
    [i \in 1..Len(set.aggr_values) |-> result_column(set.aggr_values[i]).col]

(***************************************************************************)
(* State                                                                   *)
(***************************************************************************)
NoSet == [aggr_values |-> <<>>]
EmptyMap == [k \in {} |-> NoSet]

ArrIdle == [variant |-> "Int32", v |-> <<>>]

\* the state after AggregateRelation::new, before the first call of next
AggStart ==
    /\ exhausted = FALSE
    /\ batchesGiven = 0
    /\ rowsGiven = 0
    /\ pc = "ready"
    /\ accumulator_set = NoSet
    /\ map = EmptyMap
    /\ result = NoResult
    /\ nCalls = 0
    /\ outputs = 0
    /\ outputsBefore = 0
    /\ evalFailed = FALSE
    /\ seen = {}
    /\ sawEnd = FALSE
    /\ nYielded = 0
    /\ nAccum = 0
    /\ pullsAfterEnd = 0

AggInit ==
    /\ group_expr \in GroupExprs
    /\ aggr_expr \in AggrExprs
    /\ AggStart

ArrIdleInit ==
    /\ arr = ArrIdle
    /\ bools = ArrIdle
    /\ third = ArrIdle
    /\ filtered = ArrIdle
    /\ apc = "idle"

Init == AggInit /\ ArrIdleInit

\* the call returns res: its locals are dropped
Return(res) ==
    /\ pc' = "ready"
    /\ result' = res
    /\ outputs' = IF res.tag = "Ok" THEN outputs + 1 ELSE outputs
    /\ accumulator_set' = NoSet
    /\ map' = EmptyMap

\* a panic unwinds out of next: the program ends
Abort(msg) ==
    /\ pc' = "aborted"
    /\ result' = Panic(msg)
    /\ UNCHANGED <<outputs, accumulator_set, map>>

\* a faulty loop: "if let" instead of "while let", the body runs at most once
AfterBodyOnce == "finalize"

\* where control goes after the body of the "while let" loop
AfterBody == "pull"

(***************************************************************************)
(* Relation::next for AggregateRelation                                    *)
(***************************************************************************)
\* entry of next: dispatch on group_expr, then the prologue of the path taken
NextCall ==
    /\ pc = "ready"
    /\ UNCHANGED arrVars
    /\ nCalls < MaxCalls
    /\ nCalls' = nCalls + 1
    /\ outputsBefore' = outputs
    /\ evalFailed' = FALSE
    /\ seen' = {}
    /\ sawEnd' = FALSE
    /\ nYielded' = 0
    /\ nAccum' = 0
    /\ pullsAfterEnd' = 0
    /\ UNCHANGED <<group_expr, aggr_expr, exhausted, batchesGiven, rowsGiven>>
    /\ IF group_expr = <<>>
       THEN LET c == create_accumulators(aggr_expr)
            IN IF c.ok
               THEN /\ accumulator_set' = c.set
                    /\ pc' = "pull"
                    /\ UNCHANGED <<map, result, outputs>>
               ELSE Abort(c.msg)
       ELSE /\ map' = EmptyMap
            /\ pc' = "pull"
            /\ UNCHANGED <<accumulator_set, result, outputs>>

\* without_group_by: input.next() yields Some(batch); the loop body runs
WithoutGroupByBatch ==
    /\ pc = "pull"
    /\ UNCHANGED arrVars
    /\ group_expr = <<>>
    /\ ~exhausted
    /\ batchesGiven < MaxBatches
    /\ \E n \in 0..(MaxRows - rowsGiven) :
       \E batch \in [1..n -> Values] :
          LET r == accumulate_batch(aggr_expr, accumulator_set, batch, 1)
          IN /\ batchesGiven' = batchesGiven + 1
             /\ rowsGiven' = rowsGiven + n
             /\ nYielded' = nYielded + 1
             /\ pullsAfterEnd' = IF sawEnd THEN pullsAfterEnd + 1 ELSE pullsAfterEnd
             /\ UNCHANGED <<group_expr, aggr_expr, exhausted, nCalls, outputsBefore, sawEnd>>
             /\ IF r.tag = "Ok"
                THEN /\ accumulator_set' = r.set
                     /\ pc' = AfterBody
                     /\ seen' = seen \cup { [cells |-> <<>>, val |-> batch[j]] : j \in 1..n }
                     /\ nAccum' = nAccum + 1
                     /\ UNCHANGED <<map, result, outputs, evalFailed>>
                ELSE /\ UNCHANGED <<seen, nAccum>>
                     /\ evalFailed' = (r.info = "ExecutionError")
                     /\ IF r.tag = "Err" THEN Return(Err(r.info)) ELSE Abort(r.info)

\* input.next() yields None: the "while let" loop ends
InputEnd ==
    /\ pc = "pull"
    /\ UNCHANGED arrVars
    /\ exhausted' = TRUE
    /\ sawEnd' = TRUE
    /\ pullsAfterEnd' = IF sawEnd THEN pullsAfterEnd + 1 ELSE pullsAfterEnd
    /\ pc' = "finalize"
    /\ UNCHANGED <<group_expr, aggr_expr, batchesGiven, rowsGiven, accumulator_set,
                   map, result, nCalls, outputs, outputsBefore, evalFailed,
                   seen, nYielded, nAccum>>

\* without_group_by: build the result columns and return the batch
WithoutGroupByResult ==
    /\ pc = "finalize"
    /\ UNCHANGED arrVars
    /\ group_expr = <<>>
    /\ UNCHANGED <<group_expr, aggr_expr, exhausted, batchesGiven, rowsGiven, nCalls,
                   outputsBefore, evalFailed, seen, sawEnd, nYielded, nAccum, pullsAfterEnd>>
    /\ IF \A i \in 1..Len(aggr_expr) : result_column(accumulator_set.aggr_values[i]).ok
       THEN Return(OkSome(result_columns(accumulator_set)))
       ELSE Abort("panic at aggregate.rs:332 or unimplemented at aggregate.rs:337")

(***************************************************************************)
(* Grouped path                                                            *)
(***************************************************************************)
\* GroupByScalar::Int32(..) / GroupByScalar::Utf8(..)
GroupByScalar(kind, v) == [kind |-> kind, v |-> v]

\* the key of one row (lines 368-382): cells[c] is the cell of group column c;
\* unimplemented!() for a column that is neither Int32 nor Utf8
group_key(exprs, cells) ==
    IF \A c \in 1..Len(exprs) : exprs[c].t \in {"Int32", "Utf8"}
    THEN [ok |-> TRUE,
          key |-> [c \in 1..Len(exprs) |-> GroupByScalar(exprs[c].t, cells[c])]]
    ELSE [ok |-> FALSE, key |-> <<>>]

RECURSIVE update_accumulators(_, _, _, _)
\* update_accumulators for a row whose argument cell is val, from expression j
\* on: every failure is a panic
update_accumulators(val, set, exprs, j) ==
    IF j > Len(set.aggr_values) THEN [ok |-> TRUE, msg |-> "", set |-> set]
    ELSE LET e == exprs[j]
             r == AccumulatorSet_accumulate_scalar(set, j, Some(e.t, val))
         IN IF e.node # "AggregateFunction"
            THEN [ok |-> FALSE, msg |-> "panic at aggregate.rs:268", set |-> set]
            ELSE IF ~e.argOk
            THEN [ok |-> FALSE, msg |-> "panic at aggregate.rs:265", set |-> set]
            ELSE IF e.t \notin {"Int32", "Float64"}
            THEN [ok |-> FALSE, msg |-> "panic at aggregate.rs:261", set |-> set]
            ELSE IF ~r.ok
            THEN [ok |-> FALSE, msg |-> "unsupported data type for MIN/MAX", set |-> set]
            ELSE update_accumulators(val, r.set, exprs, j + 1)

\* map.insert(key, value)
insert(m, key, value) ==
    [k \in DOMAIN m \cup {key} |-> IF k = key THEN value ELSE m[k]]

\* a faulty row loop body: a fresh AccumulatorSet is created and inserted for
\* every row, replacing the entry of a key that is already present
update_row_replace(m, key, val, exprs) ==
    LET c == create_accumulators(exprs)
        u == update_accumulators(val, c.set, exprs, 1)
    IN IF ~c.ok THEN [ok |-> FALSE, msg |-> c.msg, fresh |-> TRUE, map |-> m]
       ELSE [ok |-> u.ok, msg |-> u.msg, fresh |-> TRUE,
             map |-> IF u.ok THEN insert(m, key, u.set) ELSE m]

\* a faulty row loop body: the row that creates an entry is not folded into it
update_row_unfolded(m, key, val, exprs) ==
    IF key \in DOMAIN m
    THEN LET u == update_accumulators(val, m[key], exprs, 1)
         IN [ok |-> u.ok, msg |-> u.msg, fresh |-> FALSE,
             map |-> IF u.ok THEN [m EXCEPT ![key] = u.set] ELSE m]
    ELSE LET c == create_accumulators(exprs)
         IN [ok |-> c.ok, msg |-> c.msg, fresh |-> TRUE,
             map |-> IF c.ok THEN insert(m, key, c.set) ELSE m]

\* the body of the row loop (lines 386-402) for a row with the given key:
\* the map after it, or a panic
update_row(m, key, val, exprs) ==
    IF key \in DOMAIN m
    THEN LET u == update_accumulators(val, m[key], exprs, 1)
         IN [ok |-> u.ok, msg |-> u.msg, fresh |-> FALSE,
             map |-> IF u.ok THEN [m EXCEPT ![key] = u.set] ELSE m]
    ELSE LET c == create_accumulators(exprs)
             u == update_accumulators(val, c.set, exprs, 1)
         IN IF ~c.ok THEN [ok |-> FALSE, msg |-> c.msg, fresh |-> TRUE, map |-> m]
            ELSE [ok |-> u.ok, msg |-> u.msg, fresh |-> TRUE,
                  map |-> IF u.ok THEN insert(m, key, u.set) ELSE m]

\* with_group_by: input.next() yields Some(batch); the group expressions are
\* evaluated against it and the row loop starts
WithGroupByBatch ==
    /\ pc = "pull"
    /\ UNCHANGED arrVars
    /\ group_expr # <<>>
    /\ ~exhausted
    /\ batchesGiven < MaxBatches
    /\ batchesGiven' = batchesGiven + 1
    /\ nYielded' = nYielded + 1
    /\ pullsAfterEnd' = IF sawEnd THEN pullsAfterEnd + 1 ELSE pullsAfterEnd
    /\ UNCHANGED <<group_expr, aggr_expr, exhausted, rowsGiven, nCalls, outputsBefore, evalFailed,
                   sawEnd, seen, nAccum>>
    /\ IF \E c \in 1..Len(group_expr) : ~group_expr[c].ok
       THEN Return(Err("Propagated"))
       ELSE /\ pc' = "row"
            /\ UNCHANGED <<accumulator_set, map, result, outputs>>

\* with_group_by: one iteration of "for row in 0..batch.num_rows()": the batch
\* has another row, with the given group cells and argument cell
WithGroupByRow ==
    /\ pc = "row"
    /\ UNCHANGED arrVars
    /\ rowsGiven < MaxRows
    /\ \E cells \in [1..Len(group_expr) -> KeyVals] :
       \E val \in Values :
          LET k == group_key(group_expr, cells)
              u == update_row(map, k.key, val, aggr_expr)
          IN /\ rowsGiven' = rowsGiven + 1
             /\ UNCHANGED <<group_expr, aggr_expr, exhausted, batchesGiven, nCalls,
                            outputsBefore, sawEnd, nYielded, nAccum, pullsAfterEnd,
                            accumulator_set>>
             /\ IF ~k.ok
                THEN /\ Abort("unimplemented at aggregate.rs:380")
                     /\ UNCHANGED <<seen, evalFailed>>
                ELSE IF ~u.ok
                THEN /\ Abort(u.msg)
                     /\ evalFailed' = (u.msg = "panic at aggregate.rs:265")
                     /\ UNCHANGED seen
                ELSE /\ map' = u.map
                     /\ seen' = seen \cup { [cells |-> cells, val |-> val] }
                     /\ UNCHANGED <<pc, result, outputs, evalFailed>>

\* with_group_by: the batch has no further row, the row loop ends
WithGroupByRowsEnd ==
    /\ pc = "row"
    /\ UNCHANGED arrVars
    /\ pc' = AfterBody
    /\ nAccum' = nAccum + 1
    /\ UNCHANGED <<group_expr, aggr_expr, exhausted, batchesGiven, rowsGiven,
                   accumulator_set, map, result, nCalls, outputs, outputsBefore, evalFailed,
                   seen, sawEnd, nYielded, pullsAfterEnd>>

\* with_group_by: the output batch (lines 406-422): no column is pushed
WithGroupByResult ==
    /\ pc = "finalize"
    /\ UNCHANGED arrVars
    /\ group_expr # <<>>
    /\ UNCHANGED <<group_expr, aggr_expr, exhausted, batchesGiven, rowsGiven, nCalls,
                   outputsBefore, evalFailed, seen, sawEnd, nYielded, nAccum, pullsAfterEnd>>
    /\ Return(OkSome(<<>>))

Next ==
    \/ NextCall
    \/ WithoutGroupByBatch
    \/ WithGroupByBatch
    \/ WithGroupByRow
    \/ WithGroupByRowsEnd
    \/ InputEnd
    \/ WithoutGroupByResult
    \/ WithGroupByResult

Spec == Init /\ [][Next]_vars

(***************************************************************************)
(* Array (arrow.rs)                                                        *)
(***************************************************************************)
\* the variants of Array that hold one typed sequence
ColumnVariants == {"Boolean", "Float32", "Float64", "Int32", "Int64", "Utf8"}

\* the element values considered for a variant
Elems(variant) ==
    IF variant = "Boolean" THEN BOOLEAN
    ELSE IF variant = "Utf8" THEN {"a", "b"}
    ELSE {1, 2}

Array(variant, v) == [variant |-> variant, v |-> v]
\* Value::Boolean(..), .., Value::Utf8(..), Value::Struct(..)
Value(kind, v) == [kind |-> kind, v |-> v]
\* Array::BroadcastVariable(value)
Broadcast(value) == Array("BroadcastVariable", <<value>>)
\* Array::BroadcastVariable(Value::Int32(1)) and a Struct of one Int32 child
BroadcastArray == Broadcast(Value("Int32", 1))
StructArray == Array("Struct", <<Array("Int32", <<1>>)>>)

SeqsUpTo(S, n) == UNION { [1..k -> S] : k \in 0..n }

RECURSIVE zip_filter_inverted(_, _)
\* a faulty zip/filter/map chain: the elements whose flag is false are kept
zip_filter_inverted(v, b) ==
    IF Len(v) = 0 \/ Len(b) = 0 THEN <<>>
    ELSE IF ~Head(b) THEN <<Head(v)>> \o zip_filter_inverted(Tail(v), Tail(b))
    ELSE zip_filter_inverted(Tail(v), Tail(b))

RECURSIVE zip_filter(_, _)
\* v.iter().zip(b.iter()).filter(|&(_,f)| *f).map(|(v,_)| *v).collect():
\* zip stops at the end of the shorter sequence
zip_filter(v, b) ==
    IF Len(v) = 0 \/ Len(b) = 0 THEN <<>>
    ELSE IF Head(b) THEN <<Head(v)>> \o zip_filter(Tail(v), Tail(b))
    ELSE zip_filter(Tail(v), Tail(b))

\* Array::filter: [ok |-> FALSE] is the panic!() for a predicate that is not
\* Boolean and the unimplemented!() for a BroadcastVariable or Struct self
filter(self, pred) ==
    IF pred.variant # "Boolean" THEN [ok |-> FALSE, array |-> self]
    ELSE IF self.variant \in ColumnVariants
    THEN [ok |-> TRUE, array |-> Array(self.variant, zip_filter(self.v, pred.v))]
    ELSE [ok |-> FALSE, array |-> self]

\* the Arrays given to filter
FilterInit ==
    /\ \/ \E variant \in ColumnVariants :
             \E v \in SeqsUpTo(Elems(variant), MaxLen) : arr = Array(variant, v)
       \/ arr = BroadcastArray
       \/ arr = StructArray
    /\ \/ \E b \in SeqsUpTo(BOOLEAN, MaxLen) : bools = Array("Boolean", b)
       \/ bools = Array("Int32", <<1>>)
    /\ third = ArrIdle
    /\ filtered = ArrIdle
    /\ apc = "idle"

\* one call self.filter(&bools)
Filter ==
    /\ apc = "idle"
    /\ LET r == filter(arr, bools)
       IN /\ apc' = IF r.ok THEN "done" ELSE "aborted"
          /\ filtered' = IF r.ok THEN r.array ELSE filtered
    /\ UNCHANGED <<arr, bools, third>>
    /\ UNCHANGED aggVars

\* the Array operations are checked with the aggregate operator left alone
InitFilter ==
    /\ group_expr = <<>>
    /\ aggr_expr = <<AggregateFunction("Min", "Float64", TRUE)>>
    /\ AggStart
    /\ FilterInit

NextFilter == Filter

SpecFilter == InitFilter /\ [][NextFilter]_vars

(***************************************************************************)
(* Array::eq                                                               *)
(***************************************************************************)
\* the variants the match arms of Array::eq cover
EqVariants == {"Float32", "Float64", "Int32", "Int64", "Utf8"}

\* a faulty Array::eq: the closure compares with != instead of ==
eq_negated(self, other) ==
    IF self.variant \notin EqVariants THEN [ok |-> FALSE, v |-> <<>>]
    ELSE IF other.variant = "BroadcastVariable"
    THEN IF other.v[1].kind = self.variant
         THEN [ok |-> TRUE, v |-> [i \in 1..Len(self.v) |-> self.v[i] # other.v[1].v]]
         ELSE [ok |-> FALSE, v |-> <<>>]
    ELSE IF other.variant = self.variant
    THEN [ok |-> TRUE,
          v |-> [i \in 1..min(Len(self.v), Len(other.v)) |-> self.v[i] # other.v[i]]]
    ELSE [ok |-> FALSE, v |-> <<>>]

\* Array::eq: column against literal, column against column (zipped), and
\* the panic of the last arm for every other pair
eq(self, other) ==
    IF self.variant \notin EqVariants THEN [ok |-> FALSE, v |-> <<>>]
    ELSE IF other.variant = "BroadcastVariable"
    THEN IF other.v[1].kind = self.variant
         THEN [ok |-> TRUE, v |-> [i \in 1..Len(self.v) |-> self.v[i] = other.v[1].v]]
         ELSE [ok |-> FALSE, v |-> <<>>]
    ELSE IF other.variant = self.variant
    THEN [ok |-> TRUE,
          v |-> [i \in 1..min(Len(self.v), Len(other.v)) |-> self.v[i] = other.v[i]]]
    ELSE [ok |-> FALSE, v |-> <<>>]

\* the Arrays given to eq: a column, broadcast or struct on the left; a
\* broadcast value of any scalar kind, or a column, on the right
EqInit ==
    /\ \/ \E variant \in ColumnVariants :
             \E v \in SeqsUpTo(Elems(variant), MaxLen) : arr = Array(variant, v)
       \/ arr = BroadcastArray
       \/ arr = StructArray
    /\ \/ \E kind \in ColumnVariants :
             \E x \in Elems(kind) : bools = Broadcast(Value(kind, x))
       \/ \E variant \in ColumnVariants :
             \E v \in SeqsUpTo(Elems(variant), MaxLen - 1) : bools = Array(variant, v)
       \/ bools = StructArray
    /\ third = ArrIdle
    /\ filtered = ArrIdle
    /\ apc = "idle"

\* one call self.eq(&other)
Eq ==
    /\ apc = "idle"
    /\ LET r == eq(arr, bools)
       IN /\ apc' = IF r.ok THEN "done" ELSE "aborted"
          /\ filtered' = IF r.ok THEN Array("Vec<bool>", r.v) ELSE filtered
    /\ UNCHANGED <<arr, bools, third>>
    /\ UNCHANGED aggVars

InitEq ==
    /\ group_expr = <<>>
    /\ aggr_expr = <<AggregateFunction("Min", "Float64", TRUE)>>
    /\ AggStart
    /\ EqInit

NextEq == Eq

SpecEq == InitEq /\ [][NextEq]_vars

(***************************************************************************)
(* PartialOrd for Value. Int64 and Float64 payloads are written as their   *)
(* distance from 2^53, the first integer whose successor f64 cannot hold;  *)
(* Utf8 payloads are sequences of byte values.                             *)
(***************************************************************************)
F64(x) == [nan |-> FALSE, x |-> x]
NaN == [nan |-> TRUE, x |-> 0]

\* `r as f64`: exact up to 2^53, above it rounded to the nearest even integer
\* with ties going to the even mantissa
as_f64(r) ==
    IF r <= 0 \/ r % 2 = 0 THEN F64(r)
    ELSE IF r % 4 = 1 THEN F64(r - 1)
    ELSE F64(r + 1)

SomeOrdering(ord) == [tag |-> "Some", ord |-> ord]
NoOrdering == [tag |-> "None", ord |-> "-"]
Unimplemented == [tag |-> "Fatal", ord |-> "-"]

\* i64::partial_cmp
i64_partial_cmp(l, r) ==
    SomeOrdering(IF l < r THEN "Less" ELSE IF l = r THEN "Equal" ELSE "Greater")

\* f64::partial_cmp: no ordering when either side is NaN
f64_partial_cmp(l, r) ==
    IF l.nan \/ r.nan THEN NoOrdering ELSE i64_partial_cmp(l.x, r.x)

\* String::partial_cmp: lexicographic over the bytes
RECURSIVE str_partial_cmp(_, _)
str_partial_cmp(l, r) ==
    IF l = <<>> /\ r = <<>> THEN SomeOrdering("Equal")
    ELSE IF l = <<>> THEN SomeOrdering("Less")
    ELSE IF r = <<>> THEN SomeOrdering("Greater")
    ELSE IF Head(l) < Head(r) THEN SomeOrdering("Less")
    ELSE IF Head(l) > Head(r) THEN SomeOrdering("Greater")
    ELSE str_partial_cmp(Tail(l), Tail(r))

\* Value::partial_cmp
partial_cmp(self, other) ==
    CASE self.kind = "Float64" ->
            (CASE other.kind = "Float64" -> f64_partial_cmp(self.v, other.v)
               [] other.kind = "Int64" -> f64_partial_cmp(self.v, as_f64(other.v))
               [] OTHER -> Unimplemented)
      [] self.kind = "Int64" ->
            (CASE other.kind = "Float64" -> f64_partial_cmp(as_f64(self.v), other.v)
               [] other.kind = "Int64" -> i64_partial_cmp(self.v, other.v)
               [] OTHER -> Unimplemented)
      [] self.kind = "Utf8" ->
            (CASE other.kind = "Utf8" -> str_partial_cmp(self.v, other.v)
               [] OTHER -> Unimplemented)
      [] self.kind = "Struct" -> NoOrdering
      [] OTHER -> Unimplemented

\* the Values compared
CmpValues ==
    {Value("Boolean", TRUE), Value("Float32", 0), Value("Int32", 0),
     Value("Struct", <<>>)}
    \cup {Value("Int64", x) : x \in -1..MaxOffset}
    \cup {Value("Float64", as_f64(x)) : x \in -1..MaxOffset}
    \cup {Value("Float64", NaN)}
    \cup {Value("Utf8", u) : u \in {<<>>, <<1>>, <<1, 2>>, <<2>>}}

CmpInit ==
    /\ arr \in CmpValues
    /\ bools \in CmpValues
    /\ third \in CmpValues
    /\ filtered = ArrIdle
    /\ apc = "idle"

\* arr.partial_cmp(&bools), followed by the comparisons that chain it with
\* third: bools with arr, bools with third and arr with third
Cmp ==
    /\ apc = "idle"
    /\ LET ab == partial_cmp(arr, bools)
       IN /\ apc' = IF ab.tag = "Fatal" THEN "aborted" ELSE "done"
          /\ filtered' = [ab |-> ab,
                          ba |-> partial_cmp(bools, arr),
                          bc |-> partial_cmp(bools, third),
                          ac |-> partial_cmp(arr, third)]
    /\ UNCHANGED <<arr, bools, third>>
    /\ UNCHANGED aggVars

InitCmp ==
    /\ group_expr = <<>>
    /\ aggr_expr = <<AggregateFunction("Min", "Float64", TRUE)>>
    /\ AggStart
    /\ CmpInit

NextCmp == Cmp

SpecCmp == InitCmp /\ [][NextCmp]_vars

(***************************************************************************)
(* One MinFunction or MaxFunction given a sequence of accumulate_scalar    *)
(* calls                                                                   *)
(***************************************************************************)
\* the kinds of the scalars supplied: two the reducer covers and one it does not
AccKinds == {"Int32", "Float64", "Utf8"}
\* the arguments of accumulate_scalar
ScalarOptions == {None} \cup {Some(kind, v) : kind \in AccKinds, v \in Values}

\* MinFunction::result / MaxFunction::result
fn_result(self) == self.value

\* MinFunction::new(&data_type) or MaxFunction::new(&data_type)
AccInit ==
    /\ \E f \in {"Min", "Max"} :
          \E data_type \in {"Int32", "Float64"} : arr = NewFunction(f, data_type)
    /\ bools = <<>>
    /\ third = ArrIdle
    /\ filtered = ArrIdle
    /\ apc = "idle"

\* one call arr.accumulate_scalar(&value)
AccumulateScalar ==
    /\ apc \in {"idle", "done"}
    /\ Len(bools) < MaxSteps
    /\ \E value \in ScalarOptions :
          LET r == accumulate_scalar(arr, value)
          IN /\ arr' = r.fn
             /\ bools' = Append(bools, value)
             /\ apc' = IF r.ok THEN "done" ELSE "aborted"
    /\ UNCHANGED <<third, filtered>>
    /\ UNCHANGED aggVars

InitAcc ==
    /\ group_expr = <<>>
    /\ aggr_expr = <<AggregateFunction("Min", "Float64", TRUE)>>
    /\ AggStart
    /\ AccInit

NextAcc == AccumulateScalar

SpecAcc == InitAcc /\ [][NextAcc]_vars

(***************************************************************************)
(* Properties                                                              *)
(***************************************************************************)
\* the argument cells and the group cells of the rows the current call accumulated
SeenVals == { r.val : r \in seen }
SeenKeys == { r.cells : r \in seen }
ValsOf(cells) == { r.val : r \in { q \in seen : q.cells = cells } }

\* the minimum / maximum of a non-empty set of numbers
TrueMin(S) == CHOOSE m \in S : \A x \in S : m <= x
TrueMax(S) == CHOOSE m \in S : \A x \in S : m >= x
TrueAggregate(f, S) == IF f = "Min" THEN TrueMin(S) ELSE TrueMax(S)

Ungrouped == group_expr = <<>>
\* every aggregate expression is a Float64 MIN or MAX whose argument evaluates
AllFloat64MinMax ==
    \A i \in 1..Len(aggr_expr) :
        /\ aggr_expr[i].node = "AggregateFunction"
        /\ aggr_expr[i].f \in {"Min", "Max"}
        /\ aggr_expr[i].t = "Float64"
        /\ aggr_expr[i].argOk
\* a call of next has ended, by a return or by a panic
CallEnded == nCalls > 0 /\ pc \in {"ready", "aborted"}

\* C1: in the ungrouped path with Float64 MIN/MAX aggregates, when the input is
\* exhausted each accumulator holds the true minimum (MIN) or maximum (MAX) of
\* all the values of all the batches pulled, however they were split into batches
C1_MinMaxOfConcatenation ==
    (Ungrouped /\ AllFloat64MinMax /\ pc = "finalize" /\ seen # {}) =>
        \A i \in 1..Len(aggr_expr) :
            accumulator_set.aggr_values[i].value =
                Some("Float64", TrueAggregate(aggr_expr[i].f, SeenVals))

C1_Witness ==
    /\ Ungrouped /\ AllFloat64MinMax /\ pc = "finalize"
    /\ nAccum = 2 /\ Cardinality(SeenVals) = 2
    /\ aggr_expr[1].f = "Min"
    /\ accumulator_set.aggr_values[1].value = Some("Float64", 1)

\* C2: next in the ungrouped path with k Float64 MIN/MAX aggregates over an
\* input of at least one row returns Some(batch) of exactly k columns, column i
\* holding the one accumulated value of expression i
C2_OneRowPerAggregate ==
    (Ungrouped /\ AllFloat64MinMax /\ CallEnded /\ seen # {}) =>
        /\ pc = "ready"
        /\ result.tag = "Ok"
        /\ Len(result.columns) = Len(aggr_expr)
        /\ \A i \in 1..Len(aggr_expr) :
               result.columns[i] = <<Cell(TrueAggregate(aggr_expr[i].f, SeenVals))>>

C2_Witness ==
    /\ Ungrouped /\ AllFloat64MinMax /\ CallEnded
    /\ Len(aggr_expr) = 2 /\ aggr_expr[1].f = "Min" /\ aggr_expr[2].f = "Max"
    /\ Cardinality(SeenVals) = 2
    /\ result.tag = "Ok"
    /\ result.columns = <<(<<Cell(1)>>), (<<Cell(2)>>)>>

\* the rows of a batch given by its columns
BatchRows(columns) ==
    IF columns = <<>> THEN {}
    ELSE { [c \in 1..Len(columns) |-> columns[c][r]] : r \in 1..Len(columns[1]) }
\* the row the grouped output is to hold for a group: its key cells, then the
\* result of every aggregate over the rows of the group
GroupRow(cells) ==
    [c \in 1..(Len(group_expr) + Len(aggr_expr)) |->
        IF c <= Len(group_expr) THEN Cell(cells[c])
        ELSE Cell(TrueAggregate(aggr_expr[c - Len(group_expr)].f, ValsOf(cells)))]

\* C3: next in the grouped path returns a batch with exactly one row per
\* distinct group key of the input, holding the key and its aggregates
C3_OneRowPerGroup ==
    (~Ungrouped /\ pc = "ready" /\ result.tag = "Ok" /\ seen # {}) =>
        /\ Len(result.columns) = Len(group_expr) + Len(aggr_expr)
        /\ \A c \in 1..Len(result.columns) :
               Len(result.columns[c]) = Cardinality(SeenKeys)
        /\ BatchRows(result.columns) = { GroupRow(cells) : cells \in SeenKeys }

\* an entry of the map is the same AccumulatorSet before and after a step: its
\* accumulators only moved in the direction of their reducer
SameEntry(old, new) ==
    /\ Len(new.aggr_values) = Len(old.aggr_values)
    /\ \A j \in 1..Len(old.aggr_values) :
           old.aggr_values[j].value.some =>
               /\ new.aggr_values[j].value.some
               /\ IF old.aggr_values[j].f = "Min"
                  THEN new.aggr_values[j].value.v <= old.aggr_values[j].value.v
                  ELSE new.aggr_values[j].value.v >= old.aggr_values[j].value.v

C4_EntryPerKey ==
    (~Ungrouped /\ pc \in {"pull", "row", "finalize"}) =>
        Cardinality(DOMAIN map) = Cardinality(SeenKeys)

C4_EntriesKept ==
    (~Ungrouped /\ pc = "row" /\ pc' \in {"pull", "row", "finalize"}) =>
        /\ \A k \in DOMAIN map : k \in DOMAIN map' /\ SameEntry(map[k], map'[k])
        /\ (SeenKeys' = SeenKeys => DOMAIN map' = DOMAIN map)

\* C4: in the grouped path, after any prefix of the rows the map holds exactly
\* one AccumulatorSet per distinct key seen so far; a row with a key already
\* present creates no entry, and no entry is ever removed or replaced
C4_OneAccumulatorSetPerKey == []C4_EntryPerKey /\ [][C4_EntriesKept]_vars

C4_Witness ==
    /\ ~Ungrouped /\ pc = "row"
    /\ rowsGiven = 3
    /\ Cardinality(DOMAIN map) = 2
    /\ Cardinality(seen) = 3

\* C5: once next has returned its output batch, every later call of next
\* returns Ok(None)
C5_EndOfStreamAfterOutput ==
    (pc = "ready" /\ outputsBefore > 0) => result.tag = "OkNone"

\* C6: within one call of next the output is built only after the input has
\* signalled end-of-stream: every batch the input yielded has been accumulated,
\* the input is not pulled again after its end, and the call returns one batch
C6_OutputAfterEndOfInput ==
    /\ (pc = "finalize" \/ (pc = "ready" /\ result.tag = "Ok")) =>
           /\ sawEnd
           /\ nAccum = nYielded
           /\ pullsAfterEnd = 0
    /\ (pc = "ready" /\ result.tag = "Ok") => outputs = outputsBefore + 1

C6_Witness ==
    /\ pc = "ready" /\ result.tag = "Ok"
    /\ nYielded = 2 /\ nAccum = 2 /\ sawEnd

\* C7: when the evaluation of an aggregate argument against a batch fails, next
\* returns Err(ExecutionError) and no batch, in both paths
C7_ArgumentFailureIsErr ==
    evalFailed => (pc = "ready" /\ result = Err("ExecutionError"))

\* C8: in the grouped path a group column whose DataType is neither Int32 nor
\* Utf8 makes next return Err(NotImplemented); the program does not abort
C8_UnsupportedGroupTypeIsErr ==
    ( /\ \E c \in 1..Len(group_expr) : group_expr[c].t \notin {"Int32", "Utf8"}
      /\ CallEnded /\ rowsGiven > 0 ) =>
        (pc = "ready" /\ result = Err("NotImplemented"))

\* C9: an aggregate-expression list holding a node that is no aggregate
\* function makes next return Err(General)
C9_NonAggregateIsGeneralErr ==
    ( /\ \E i \in 1..Len(aggr_expr) : aggr_expr[i].node # "AggregateFunction"
      /\ CallEnded /\ Ungrouped ) =>
        (pc = "ready" /\ result = Err("General"))

\* the number of true entries among the first n entries of b
CountTrue(b, n) == Cardinality({ i \in 1..n : i <= Len(b) /\ b[i] })

\* C10 as stated: for a of a column variant and a Boolean p, a.filter(p) has
\* the variant of a and as many entries as p has true entries
C10_FilterLengthIsTrueCount ==
    (arr.variant \in ColumnVariants /\ bools.variant = "Boolean" /\ apc # "idle") =>
        /\ apc = "done"
        /\ filtered.variant = arr.variant
        /\ Len(filtered.v) = CountTrue(bools.v, Len(bools.v))

\* C10 amended: the length is the number of true entries among the first
\* min(len(a), len(p)) entries of p, which is the number of true entries of p
\* whenever p is not longer than a
C10_FilterLengthIsZippedTrueCount ==
    (arr.variant \in ColumnVariants /\ bools.variant = "Boolean" /\ apc # "idle") =>
        /\ apc = "done"
        /\ filtered.variant = arr.variant
        /\ Len(filtered.v) = CountTrue(bools.v, min(Len(arr.v), Len(bools.v)))
        /\ (Len(bools.v) <= Len(arr.v) =>
               Len(filtered.v) = CountTrue(bools.v, Len(bools.v)))

C10_Witness ==
    /\ apc = "done"
    /\ arr.variant = "Utf8" /\ arr.v = <<"a", "b">>
    /\ bools.variant = "Boolean" /\ bools.v = <<FALSE, TRUE, TRUE>>
    /\ filtered.variant = "Utf8" /\ filtered.v = <<"b">>

\* the operands of eq are a typed column and a broadcast value
ColumnVsConstant == arr.variant \in ColumnVariants /\ bools.variant = "BroadcastVariable"
\* the result of eq holds one boolean per element of the column, and they are
\* all true when every element equals the constant
EqPerElement ==
    /\ apc = "done"
    /\ Len(filtered.v) = Len(arr.v)
    /\ (\A i \in 1..Len(arr.v) : arr.v[i] = bools.v[1].v) =>
           \A i \in 1..Len(filtered.v) : filtered.v[i]
\* the operands of eq are of mismatched kinds
MismatchedKinds ==
    \/ ColumnVsConstant /\ bools.v[1].kind # arr.variant
    \/ /\ arr.variant \in ColumnVariants /\ bools.variant \in ColumnVariants
       /\ bools.variant # arr.variant

\* C11 as stated: for every typed column and every broadcast value of the
\* column's scalar kind, eq returns one boolean per element, all true when every
\* element equals the constant; for mismatched kinds eq fails fatally
C11_EqColumnVsConstant ==
    (apc # "idle") =>
        /\ (ColumnVsConstant /\ bools.v[1].kind = arr.variant) => EqPerElement
        /\ MismatchedKinds => apc = "aborted"

\* C11 amended: the same for Float32, Float64, Int32, Int64 and Utf8 columns;
\* a Boolean column fails fatally even against a Boolean constant
C11_EqWiredColumnVsConstant ==
    (apc # "idle") =>
        /\ (ColumnVsConstant /\ arr.variant \in EqVariants
               /\ bools.v[1].kind = arr.variant) => EqPerElement
        /\ (ColumnVsConstant /\ arr.variant = "Boolean") => apc = "aborted"
        /\ MismatchedKinds => apc = "aborted"

C11_Witness ==
    /\ apc = "done"
    /\ arr.variant = "Utf8" /\ arr.v = <<"a", "a">>
    /\ bools.variant = "BroadcastVariable" /\ bools.v[1] = Value("Utf8", "a")
    /\ filtered.v = <<TRUE, TRUE>>

\* the pairs of kinds for which partial_cmp has an arm that compares
WiredPair(a, b) ==
    \/ a.kind \in {"Float64", "Int64"} /\ b.kind \in {"Float64", "Int64"}
    \/ a.kind = "Utf8" /\ b.kind = "Utf8"
\* the comparison returned Less or Equal
AtMost(c) == c.tag = "Some" /\ c.ord \in {"Less", "Equal"}

\* C12: partial_cmp returns an ordering exactly for the wired pairs, None for a
\* Struct compared to anything, and fails fatally for every other pair; on the
\* wired pairs cmp(a,b) is Less exactly when cmp(b,a) is Greater, and the order
\* is transitive
C12_PartialCmpIsPartialOrder ==
    (apc # "idle") =>
        /\ WiredPair(arr, bools) => filtered.ab.tag = "Some"
        /\ arr.kind = "Struct" => filtered.ab.tag = "None"
        /\ (~WiredPair(arr, bools) /\ arr.kind # "Struct") =>
               (filtered.ab.tag = "Fatal" /\ apc = "aborted")
        /\ WiredPair(arr, bools) =>
               (filtered.ab = SomeOrdering("Less") <=> filtered.ba = SomeOrdering("Greater"))
        /\ (AtMost(filtered.ab) /\ AtMost(filtered.bc)) => AtMost(filtered.ac)

\* the non-None values supplied to the accumulator so far
Supplied == {bools[i] : i \in {j \in 1..Len(bools) : bools[j].some}}
\* the calls made so far were given same-kind or absent values
SameKindOrAbsent == \A x, y \in Supplied : x.kind = y.kind
\* the step from this state to the next is a call of accumulate_scalar, and
\* Incoming is its argument
AccStep == Len(bools') = Len(bools) + 1
Incoming == bools'[Len(bools')]

\* C13, state part: after calls with same-kind or absent values, result() is
\* None when every supplied value was None and otherwise the min (Min) or max
\* (Max) of the non-None values; so the first non-None value is stored as is
C13_ResultIsMinMaxOfSupplied ==
    (apc = "done" /\ SameKindOrAbsent) =>
        IF Supplied = {} THEN fn_result(arr) = None
        ELSE \E x \in Supplied :
                fn_result(arr) = Some(x.kind, TrueAggregate(arr.f, {y.v : y \in Supplied}))
\* C13, step part: accumulate_scalar(None) made after a non-None value was
\* stored leaves the stored value unchanged, and the first non-None value is
\* stored as is
C13_NoneKeepsFirstStored ==
    AccStep =>
        /\ (fn_result(arr).some /\ ~Incoming.some) =>
               (apc' = "done" /\ fn_result(arr') = fn_result(arr))
        /\ (Supplied = {} /\ Incoming.some) =>
               (apc' = "done" /\ fn_result(arr') = Incoming)
\* C13: result() of MinFunction and MaxFunction is the min or max of the
\* non-None values supplied, None when there were none; a None supplied later
\* changes nothing and the first non-None value is stored as is
C13_AccumulateScalarSequence ==
    []C13_ResultIsMinMaxOfSupplied /\ [][C13_NoneKeepsFirstStored]_vars

C13_Witness ==
    /\ apc = "done"
    /\ arr.f = "Max"
    /\ bools = <<None, Some("Float64", 1), None>>
    /\ fn_result(arr) = Some("Float64", 1)

\* the last call of next returned Ok(Some(batch))
ReturnedBatch == nCalls > 0 /\ pc = "ready" /\ result.tag = "Ok"
\* expression i is an aggregate function declared with output type t
DeclaredType(i, t) == aggr_expr[i].node = "AggregateFunction" /\ aggr_expr[i].t = t

\* C14: in the ungrouped path, when the input yields no rows to a call (None on
\* the first pull, or only empty batches), the batch next returns holds, for
\* every Float64 aggregate, a column of exactly one entry, the null marker; with
\* Float64 MIN/MAX aggregates only, next does return a batch
C14_NullForEmptyInput ==
    (Ungrouped /\ CallEnded /\ seen = {}) =>
        /\ AllFloat64MinMax => ReturnedBatch
        /\ ReturnedBatch =>
               \A i \in 1..Len(aggr_expr) :
                   DeclaredType(i, "Float64") => result.columns[i] = <<Null>>

C14_Witness ==
    /\ Ungrouped /\ ReturnedBatch /\ seen = {}
    /\ nCalls = 1 /\ nYielded = 2
    /\ DeclaredType(1, "Float64")
    /\ result.columns[1] = <<Null>>

\* every aggregate expression is a MIN or MAX declared Int32 or Float64 whose
\* argument evaluates, and one of them is declared Int32
Int32Aggregate ==
    /\ \A i \in 1..Len(aggr_expr) :
          /\ aggr_expr[i].node = "AggregateFunction"
          /\ aggr_expr[i].f \in {"Min", "Max"}
          /\ aggr_expr[i].t \in {"Int32", "Float64"}
          /\ aggr_expr[i].argOk
    /\ \E i \in 1..Len(aggr_expr) : aggr_expr[i].t = "Int32"
\* the column of every Int32 aggregate in the returned batch is empty
Int32ColumnsEmpty ==
    \A i \in 1..Len(aggr_expr) : DeclaredType(i, "Int32") => result.columns[i] = <<>>

\* C15 as stated: in the ungrouped path with an Int32 aggregate, next returns a
\* batch whose column for that aggregate is empty, for every input
C15_Int32ColumnEmptyForEveryInput ==
    (Ungrouped /\ Int32Aggregate /\ CallEnded) => (ReturnedBatch /\ Int32ColumnsEmpty)

\* C15 amended: every batch returned has an empty column for an Int32
\* aggregate, but a batch is returned only when the input yields no batch to
\* the call; once a batch was pulled, next returns Err(NotImplemented)
C15_Int32ColumnEmptyOrNotImplemented ==
    (Ungrouped /\ Int32Aggregate /\ CallEnded) =>
        /\ pc = "ready"
        /\ nYielded = 0 => (ReturnedBatch /\ Int32ColumnsEmpty)
        /\ nYielded > 0 => result = Err("NotImplemented")

C15_Witness ==
    /\ Ungrouped /\ Int32Aggregate /\ CallEnded
    /\ nCalls = 1 /\ nYielded = 1
    /\ result = Err("NotImplemented")

\* the composite key of the rows whose group cells are cells
KeyOf(cells) == group_key(group_expr, cells).key
\* the rows folded by the step from this state to the next
NewRows == seen' \ seen

\* C16, state part: once the input is consumed the keys of the map are the keys
\* of the rows seen, and accumulator j of a key holds the MIN or MAX of the
\* argument values of exactly the rows of that key
C16_AccumulatorsPerKey ==
    (~Ungrouped /\ pc = "finalize") =>
        /\ DOMAIN map = { KeyOf(cells) : cells \in SeenKeys }
        /\ \A cells \in SeenKeys :
              /\ Len(map[KeyOf(cells)].aggr_values) = Len(aggr_expr)
              /\ \A j \in 1..Len(aggr_expr) :
                    map[KeyOf(cells)].aggr_values[j].value =
                        Some(aggr_expr[j].t, TrueAggregate(aggr_expr[j].f, ValsOf(cells)))
\* C16, step part: the row that creates an entry is folded into it, and a row
\* leaves the AccumulatorSet of every other key as it was
C16_RowFoldedIntoOwnKey ==
    (~Ungrouped /\ pc = "row" /\ pc' = "row") =>
        /\ \A k \in DOMAIN map :
              (\A r \in NewRows : KeyOf(r.cells) # k) => map'[k] = map[k]
        /\ \A r \in NewRows :
              KeyOf(r.cells) \notin DOMAIN map =>
                  /\ KeyOf(r.cells) \in DOMAIN map'
                  /\ \A j \in 1..Len(aggr_expr) :
                        map'[KeyOf(r.cells)].aggr_values[j].value = Some(aggr_expr[j].t, r.val)
\* C16: in the grouped path every accumulator of every key holds the MIN or MAX
\* of the argument values of exactly the rows of that key: the creating row is
\* folded in and a row never updates the AccumulatorSet of another key
C16_GroupedAccumulation ==
    []C16_AccumulatorsPerKey /\ [][C16_RowFoldedIntoOwnKey]_vars

C16_Witness ==
    /\ ~Ungrouped /\ pc = "finalize"
    /\ Cardinality(DOMAIN map) = 2 /\ Cardinality(seen) = 3
    /\ Len(aggr_expr) = 2 /\ aggr_expr[1].f = "Min" /\ aggr_expr[2].f = "Max"
    /\ \E cells \in SeenKeys :
          /\ Cardinality(ValsOf(cells)) = 2
          /\ map[KeyOf(cells)].aggr_values[1].value.v = 1
          /\ map[KeyOf(cells)].aggr_values[2].value.v = 2

\* the kinds the claim lists as reducible
SupportedKinds == {"UInt8", "UInt16", "UInt32", "UInt64",
                   "Int8", "Int16", "Int32", "Int64", "Float32", "Float64"}
\* the first non-None value supplied to the accumulator
FirstSupplied ==
    bools[CHOOSE i \in 1..Len(bools) :
             bools[i].some /\ \A j \in 1..(i - 1) : ~bools[j].some]

\* C17, step part: a reduction step (stored and incoming value both present)
\* fails fatally when the kinds differ or the kind is not a supported one, and
\* otherwise does not fail and keeps the kind
C17_ReductionStep ==
    (AccStep /\ fn_result(arr).some /\ Incoming.some) =>
        IF fn_result(arr).kind # Incoming.kind \/ Incoming.kind \notin SupportedKinds
        THEN apc' = "aborted"
        ELSE apc' = "done" /\ fn_result(arr').kind = fn_result(arr).kind
\* C17, state part: after non-failing steps the stored value has the kind of
\* the first non-None value supplied
C17_KindOfFirstSupplied ==
    (apc = "done" /\ Supplied # {}) =>
        (fn_result(arr).some /\ fn_result(arr).kind = FirstSupplied.kind)
\* C17: a MIN/MAX reduction step on operands of different kinds or of an
\* unsupported kind fails fatally; on the same supported kind it never fails and
\* keeps the kind, so the stored value has the kind of the first non-None value
C17_KindMismatchIsFatal ==
    []C17_KindOfFirstSupplied /\ [][C17_ReductionStep]_vars

C17_Witness ==
    /\ apc = "aborted"
    /\ arr.f = "Min"
    /\ bools = <<Some("Int32", 1), None, Some("Float64", 1)>>
    /\ fn_result(arr) = Some("Int32", 1)

\* the column the rows pulled by the current call give for expression i
ColumnOfSeen(i) ==
    IF DeclaredType(i, "Int32") THEN <<>>
    ELSE IF seen = {} THEN <<Null>>
    ELSE <<Cell(TrueAggregate(aggr_expr[i].f, SeenVals))>>

\* C18, step part: a call of next starts from freshly created accumulators
\* (ungrouped) or from an empty map (grouped)
C18_CallStartsFresh ==
    (nCalls' = nCalls + 1 /\ pc' = "pull") =>
        IF Ungrouped
        THEN /\ Len(accumulator_set'.aggr_values) = Len(aggr_expr)
             /\ \A i \in 1..Len(aggr_expr) : accumulator_set'.aggr_values[i].value = None
        ELSE DOMAIN map' = {}
\* C18, state part: the batch a call returns is given by the rows that call
\* pulled; a call that pulled nothing returns no value of an earlier call
C18_BatchFromOwnPulls ==
    ReturnedBatch =>
        IF Ungrouped
        THEN /\ Len(result.columns) = Len(aggr_expr)
             /\ \A i \in 1..Len(aggr_expr) : result.columns[i] = ColumnOfSeen(i)
             /\ nYielded = 0 =>
                   \A i \in 1..Len(aggr_expr) :
                       \A c \in 1..Len(result.columns[i]) : result.columns[i][c].null
        ELSE result.columns = <<>>
\* C18: accumulator state does not outlive a call of next: every call starts
\* from fresh accumulators or an empty map, the batch it returns depends only
\* on the batches it pulled, and a call made after the input is exhausted does
\* not return the values accumulated by an earlier call
C18_StateDoesNotOutliveCall ==
    []C18_BatchFromOwnPulls /\ [][C18_CallStartsFresh]_vars

C18_Witness ==
    /\ Ungrouped /\ AllFloat64MinMax /\ ReturnedBatch
    /\ nCalls = 2 /\ outputsBefore = 1 /\ rowsGiven > 0
    /\ nYielded = 0
    /\ result.columns[1] = <<Null>>

====
